---- MODULE Spec2Model ----
(***************************************************************************)
(* Least-squares Monte Carlo pricing of an American put with R repeats,    *)
(* as implemented by the code cell of                                      *)
(*   src/4-Super_LSMC/4.2.1-Extended_example_repeats.ipynb                 *)
(*                                                                         *)
(* Numbers.  Every real of the program is an exact rational <<n, d>> with  *)
(* d > 0 in lowest terms.  Time is counted in steps of dt, and rates and   *)
(* log-returns are counted in units of ln 2, so that np.exp maps the       *)
(* integer k to the rational 2^k: r stands for r*dt/ln 2, and a draw z     *)
(* stands for the standard normal Z at which the whole random part of the  *)
(* exponent, -0.5*sigma^2*dt + sigma*sqrt(dt)*Z, equals sigma*z*ln 2.      *)
(* Floating-point rounding is not modelled.                                *)
(***************************************************************************)
EXTENDS Integers, Sequences, FiniteSets, TLC

\* ------------------------------------------------------------------ bounds
MaxN == 4
MaxNt == 4
MaxR == 2
MaxSeed == 53

\* ------------------------------------------------------- exact rationals
\* The numeric operations are functions, so that an argument is evaluated
\* once, before the application.
Abs(a) == IF a < 0 THEN -a ELSE a

GCD[a \in Nat, b \in Nat] == IF b = 0 THEN a ELSE GCD[b, a % b]

LCM[a \in Nat, b \in Nat] == (a \div GCD[a, b]) * b

Q == Int \X Int

\* n / d in lowest terms with a positive denominator
Rat[n \in Int, d \in Int] ==
    LET g == GCD[Abs(n), Abs(d)]
    IN  <<(IF d < 0 THEN -n ELSE n) \div g, Abs(d) \div g>>

RInt(n) == <<n, 1>>
RZero == <<0, 1>>
ROne == <<1, 1>>

RAdd[x \in Q, y \in Q] ==
    LET l == LCM[x[2], y[2]]
    IN  Rat[x[1] * (l \div x[2]) + y[1] * (l \div y[2]), l]

RSub[x \in Q, y \in Q] == RAdd[x, <<-y[1], y[2]>>]

RMul[x \in Q, y \in Q] ==
    LET g1 == GCD[Abs(x[1]), y[2]]
        g2 == GCD[Abs(y[1]), x[2]]
    IN  Rat[(x[1] \div g1) * (y[1] \div g2), (x[2] \div g2) * (y[2] \div g1)]

RDiv[x \in Q, y \in Q] == RMul[x, Rat[y[2], y[1]]]

RDivInt[x \in Q, n \in Int] == Rat[x[1], x[2] * n]

RLess[x \in Q, y \in Q] ==
    LET l == LCM[x[2], y[2]]
    IN  x[1] * (l \div x[2]) < y[1] * (l \div y[2])

RMax[x \in Q, y \in Q] == IF RLess[x, y] THEN y ELSE x

Pow[b \in Int, e \in Nat] == IF e = 0 THEN 1 ELSE b * Pow[b, e - 1]

\* np.exp at k*ln 2
Exp[k \in Int] == IF k >= 0 THEN <<Pow[2, k], 1>> ELSE <<1, Pow[2, -k]>>

\* the element of a one-element set: binds a value that is used several times
The(A) == CHOOSE v \in A : TRUE

\* sum of the vector f over the indices lo..hi
RECURSIVE RSum(_, _, _)
RSum(f, lo, hi) == IF hi < lo THEN RZero ELSE RAdd[f[hi], RSum(f, lo, hi - 1)]

\* np.mean of a vector indexed 0..n-1
Mean(f, n) == RDivInt[RSum(f, 0, n - 1), n]

\* np.var of a vector indexed 0..n-1; np.std is its square root
Var(f, n) ==
    The({Mean([k \in 0 .. n - 1 |-> RMul[RSub[f[k], m], RSub[f[k], m]]], n) :
           m \in {Mean(f, n)}})

\* ------------------------------------------------------------------ state
VARIABLES
    r, K, nt, N, R, S0, sigma, seed,   \* the parameters of the cell
    rng_pos,                           \* draws taken from the seeded stream
    price_estimate,                    \* one estimate per repetition
    pc, repnum, i,                     \* position in the cell
    S, Z,                              \* path table and last draw vector
    intrinsic, payoff, exec_t, dcf,    \* per-path working vectors
    betas,                             \* per column: is the coefficient vector non-zero
    it, t_now, itm_paths, y_hat,       \* backward loop: range iterator, loop variable
    output,                            \* the two printed lines
    run, prev_estimate                 \* executions of the cell, estimates of the last one

params == <<r, K, nt, N, R, S0, sigma, seed>>
work == <<S, Z, intrinsic, payoff, exec_t, dcf, betas, it, t_now, itm_paths, y_hat>>
hist == <<run, prev_estimate>>
vars == <<params, rng_pos, price_estimate, pc, repnum, i, work, output, hist>>

\* a name of the cell that is not bound yet: an empty vector (an empty set
\* for itm_paths, 0 for the loop variables)
None == <<>>
Paths == 0 .. N - 1

\* ----------------------------------------------------------- random source
\* np.random.seed(seed) fixes the stream; draw number k is digit k (base 3,
\* cyclically over StreamPeriod digits) of the seed, mapped to -1, 0, 1.
StreamPeriod == 5
Stream(sd, k) == ((sd \div Pow[3, k % StreamPeriod]) % 3) - 1

\* np.random.normal(0, 1, N): the next N values of the stream
Normal(sd, pos, n) == [p \in 0 .. n - 1 |-> Stream(sd, pos + p)]

\* variant: the shock is not scaled by sigma
GBMFactorUnitVol(rr, sg, z) == Exp[rr + z]

\* np.exp((r - 0.5 * sigma**2) * dt + sigma * np.sqrt(dt) * Z), one path
GBMFactor(rr, sg, z) == Exp[rr + sg * z]

\* ------------------------------------------------------------------- Init
\* the parameter ranges the specification calls valid
ValidParams ==
    /\ N >= 1 /\ nt >= 1 /\ sigma >= 0 /\ RLess[RZero, S0]

InitState ==
    /\ rng_pos = 0
    /\ price_estimate = [k \in 0 .. R - 1 |-> RZero]
    /\ pc = "rep" /\ repnum = 0 /\ i = 0
    /\ S = None /\ Z = None
    /\ intrinsic = None /\ payoff = None /\ exec_t = None /\ dcf = None
    /\ betas = None /\ it = 0 /\ t_now = 0 /\ itm_paths = {} /\ y_hat = None
    /\ output = None
    /\ run = 1 /\ prev_estimate = <<>>

\* rate and volatility pairs, in units of ln 2 per step
RateVol == {<<0, 0>>, <<0, 1>>, <<1, 0>>, <<1, 2>>}

Init ==
    /\ \E rv \in RateVol : r = rv[1] /\ sigma = rv[2]
    /\ K = RInt(2)
    /\ nt \in 1 .. MaxNt
    /\ N \in 1 .. MaxN
    /\ R \in 1 .. MaxR
    /\ S0 \in {RInt(1), RInt(2), RInt(4)}
    /\ seed \in 0 .. MaxSeed
    /\ InitState

\* variant: the generator is seeded at the start of every repetition
RepStartReseed ==
    /\ pc = "rep" /\ repnum < R
    /\ rng_pos' = 0
    /\ dcf' = None /\ intrinsic' = None /\ exec_t' = None /\ payoff' = None
    /\ S' = [p \in Paths |-> [j \in 0 .. nt |-> IF j = 0 THEN S0 ELSE RZero]]
    /\ i' = 1
    /\ pc' = "sim"
    /\ UNCHANGED <<params, price_estimate, repnum, Z, betas, it, t_now,
                   itm_paths, y_hat, output, hist>>

\* ------------------------------------------------------------ repetition
\* for repnum in range(R): clear the working vectors, allocate S, S[:, 0] = S0
RepStart ==
    /\ pc = "rep" /\ repnum < R
    /\ dcf' = None /\ intrinsic' = None /\ exec_t' = None /\ payoff' = None
    /\ S' = [p \in Paths |-> [j \in 0 .. nt |-> IF j = 0 THEN S0 ELSE RZero]]
    /\ i' = 1
    /\ pc' = "sim"
    /\ UNCHANGED <<params, rng_pos, price_estimate, repnum, Z, betas, it, t_now,
                   itm_paths, y_hat, output, hist>>

\* for i in range(1, nt + 1): Z = normal(0, 1, N); S[:, i] = S[:, i-1] * exp(..)
SimStep ==
    /\ pc = "sim" /\ i <= nt
    /\ \E z \in {Normal(seed, rng_pos, N)} :
          /\ Z' = z
          /\ S' = [p \in Paths |->
                     [S[p] EXCEPT ![i] = RMul[S[p][i - 1], GBMFactor(r, sigma, z[p])]]]
    /\ rng_pos' = rng_pos + N
    /\ i' = i + 1
    /\ UNCHANGED <<params, price_estimate, pc, repnum, intrinsic, payoff, exec_t,
                   dcf, betas, it, t_now, itm_paths, y_hat, output, hist>>

\* ---------------------------------------------------------------- solver
\* np.maximum(K - S[p, j], 0)
PutValue(Sx, p, j) == RMax[RSub[K, Sx[p][j]], RZero]

\* np.exp(-r * dt)
Discount(rr) == Exp[-rr]

\* np.exp(-r * dt) * payoff
Discounted(pay) == [p \in Paths |-> RMul[Discount(r), pay[p]]]

\* S[:, t]
PricesAt(Sx, t) == [p \in Paths |-> Sx[p][t]]

\* variant: np.where(S[:, t] <= K)[0]
ItmPathsLeq(Sx, t) == {p \in Paths : ~RLess[K, Sx[p][t]]}

\* np.where(S[:, t] < K)[0]
ItmPaths(Sx, t) == {p \in Paths : RLess[Sx[p][t], K]}

\* sum of the vector f over the paths in T
RSumSet(f, T) ==
    The({RSum(g, 0, N - 1) : g \in {[p \in Paths |-> IF p \in T THEN f[p] ELSE RZero]}})

\* variant: a least-squares solver that rejects a matrix with no row
LstsqRaisesOnEmpty(T) == T = {}

\* lstsq(X, y, rcond=None) raises LinAlgError only when the SVD does not
\* converge; with no row (no path in the money) it returns a zero vector.
LstsqRaises(T) == FALSE

\* the abscissa x = s / min(s) - 1 of the paths in T
Abscissa(s, T) ==
    The({[p \in Paths |-> IF p \in T THEN RSub[RDiv[s[p], smin], ROne] ELSE RZero] :
           smin \in {v \in {s[p] : p \in T} : \A q \in T : ~RLess[s[q], v]}})

\* the vector x**e * w
PowTimes(x, w, e) ==
    [p \in Paths |->
       IF e = 0 THEN w[p]
       ELSE IF e = 1 THEN RMul[x[p], w[p]]
       ELSE IF e = 2 THEN RMul[RMul[x[p], x[p]], w[p]]
       ELSE IF e = 3 THEN RMul[RMul[x[p], RMul[x[p], x[p]]], w[p]]
       ELSE RMul[RMul[RMul[x[p], x[p]], RMul[x[p], x[p]]], w[p]]]

\* sum over the paths in T of x**e * w, for e = 0 .. top
Moments(x, w, T, top) ==
    [e \in 0 .. top |-> The({RSumSet(v, T) : v \in {PowTimes(x, w, e)}})]

Det3(m) ==
    RSub[RAdd[RAdd[RMul[m[1][1], RMul[m[2][2], m[3][3]]],
                   RMul[m[1][2], RMul[m[2][3], m[3][1]]]],
              RMul[m[1][3], RMul[m[2][1], m[3][2]]]],
         RAdd[RAdd[RMul[m[1][3], RMul[m[2][2], m[3][1]]],
                   RMul[m[1][2], RMul[m[2][1], m[3][3]]]],
              RMul[m[1][1], RMul[m[2][3], m[3][2]]]]]

\* the solution of the normal equations (X^T X) beta = X^T y by Cramer's
\* rule; g[e] = sum x**e and b[e] = sum x**e * y
Cramer(g, b) ==
    The({<<RDiv[D[1], D[0]], RDiv[D[2], D[0]], RDiv[D[3], D[0]]>> :
           D \in {[j \in 0 .. 3 |->
                     Det3([a \in 1 .. 3 |-> [c \in 1 .. 3 |->
                            IF c = j THEN b[a - 1] ELSE g[a + c - 2]]])]}})

\* X @ lstsq(X, y)[0] for X = column_stack((1, s, s**2)) on the paths in T:
\* the orthogonal projection of y on the columns of X.  With fewer than three
\* distinct prices X is rank deficient, its column space is every vector that
\* is constant on paths of equal price, and the minimum-norm solution fits
\* the mean of y over those paths.  Otherwise the normal equations have one
\* solution; the fitted values do not depend on an affine change of
\* abscissa, and x = s / min(s) - 1 keeps the numbers small.
FittedValues(s, y, T) ==
    IF Cardinality({s[p] : p \in T}) < 3
    THEN [p \in T |->
            The({RDivInt[RSumSet(y, same), Cardinality(same)] :
                   same \in {{q \in T : s[q] = s[p]}}})]
    ELSE The({The({The({[p \in T |->
                           RAdd[beta[1], RAdd[RMul[beta[2], x[p]],
                                              RMul[beta[3], RMul[x[p], x[p]]]]]] :
                          beta \in {Cramer(g, b)}}) :
                     g \in {Moments(x, [p \in Paths |-> ROne], T, 4)},
                     b \in {Moments(x, y, T, 2)}}) :
                x \in {Abscissa(s, T)}})

\* variant: the refresh of intrinsic at step t is left out
IntrinsicStale(Sx, intr, itm, t) == intr

\* intrinsic[itm_paths] = np.maximum(K - S[itm_paths, t], 0)
IntrinsicRefresh(Sx, intr, itm, t) ==
    [p \in Paths |-> IF p \in itm THEN PutValue(Sx, p, t) ELSE intr[p]]

\* variant: np.where(y_hat < intrinsic[itm_paths], t, nt)
ExerciseReset(ex, itm, yh, intr, t) ==
    [p \in Paths |->
       IF p \in itm THEN (IF RLess[yh[p], intr[p]] THEN t ELSE nt) ELSE ex[p]]

\* exec_t[itm_paths] = np.where(y_hat < intrinsic[itm_paths], t, exec_t[itm_paths])
ExerciseUpdate(ex, itm, yh, intr, t) ==
    [p \in Paths |-> IF p \in itm /\ RLess[yh[p], intr[p]] THEN t ELSE ex[p]]

\* variant: payoff = np.maximum(intrinsic, dcf)
PayoffMax(ex, intr, d, t) == [p \in Paths |-> RMax[intr[p], d[p]]]

\* payoff = np.where(exec_t == t, intrinsic, dcf)
PayoffUpdate(ex, intr, d, t) ==
    [p \in Paths |-> IF ex[p] = t THEN intr[p] ELSE d[p]]

\* variant: range(nt-1, -1, -1)
LoopToZero(k) == k >= 0

\* range(nt-1, 0, -1) yields k
LoopContinues(k) == k >= 1

\* variant: betas is allocated in the first repetition only
InitSolverKeepBetas ==
    /\ pc = "sim" /\ i > nt
    /\ intrinsic' = [p \in Paths |-> PutValue(S, p, nt)]
    /\ payoff' = [p \in Paths |-> PutValue(S, p, nt)]
    /\ exec_t' = [p \in Paths |-> nt]
    /\ betas' = IF repnum = 0 THEN [t \in 0 .. nt - 1 |-> FALSE] ELSE betas
    /\ it' = nt - 1
    /\ pc' = "loop"
    /\ UNCHANGED <<params, rng_pos, price_estimate, repnum, i, S, Z, dcf, t_now,
                   itm_paths, y_hat, output, hist>>

\* intrinsic, payoff, exec_t at maturity; betas = zeros; the range iterator
InitSolver ==
    /\ pc = "sim" /\ i > nt
    /\ intrinsic' = [p \in Paths |-> PutValue(S, p, nt)]
    /\ payoff' = [p \in Paths |-> PutValue(S, p, nt)]
    /\ exec_t' = [p \in Paths |-> nt]
    /\ betas' = [t \in 0 .. nt - 1 |-> FALSE]
    /\ it' = nt - 1
    /\ pc' = "loop"
    /\ UNCHANGED <<params, rng_pos, price_estimate, repnum, i, S, Z, dcf, t_now,
                   itm_paths, y_hat, output, hist>>

\* one pass of: for t_now in range(nt-1, 0, -1)
BackwardStep ==
    /\ pc = "loop" /\ LoopContinues(it)
    /\ t_now' = it
    /\ \E d \in {Discounted(payoff)}, itm \in {ItmPaths(S, it)} :
          /\ dcf' = d
          /\ itm_paths' = itm
          /\ IF LstsqRaises(itm)
             THEN /\ pc' = "error"
                  /\ UNCHANGED <<y_hat, betas, intrinsic, exec_t, payoff, it>>
             ELSE /\ pc' = pc
                  /\ it' = it - 1
                  /\ \E s \in {PricesAt(S, it)},
                        intr \in {IntrinsicRefresh(S, intrinsic, itm, it)} :
                     \E yh \in {FittedValues(s, d, itm)} :
                        /\ y_hat' = yh
                        /\ betas' = [betas EXCEPT ![it] = \E p \in itm : yh[p] # RZero]
                        /\ intrinsic' = intr
                        /\ \E ex \in {ExerciseUpdate(exec_t, itm, yh, intr, it)} :
                              /\ exec_t' = ex
                              /\ payoff' = PayoffUpdate(ex, intr, d, it)
    /\ UNCHANGED <<params, rng_pos, price_estimate, repnum, i, S, Z, output, hist>>

\* after the loop: dcf = exp(-r*dt) * payoff; price_estimate[repnum] = mean(dcf)
Finish ==
    /\ pc = "loop" /\ ~LoopContinues(it)
    /\ \E d \in {Discounted(payoff)} :
          /\ dcf' = d
          /\ price_estimate' = [price_estimate EXCEPT ![repnum] = Mean(d, N)]
    /\ repnum' = repnum + 1
    /\ pc' = "rep"
    /\ UNCHANGED <<params, rng_pos, i, S, Z, intrinsic, payoff, exec_t, betas, it,
                   t_now, itm_paths, y_hat, output, hist>>

\* the two print lines after the repetition loop: the mean of the estimates
\* and their standard deviation, given by its square
Report ==
    /\ pc = "rep" /\ repnum >= R
    /\ output' = <<Mean(price_estimate, R), Var(price_estimate, R)>>
    /\ pc' = "done"
    /\ UNCHANGED <<params, rng_pos, price_estimate, repnum, i, work, hist>>

Next == RepStart \/ SimStep \/ InitSolver \/ BackwardStep \/ Finish \/ Report

Spec == Init /\ [][Next]_vars

\* ------------------------------------------------- the cell executed again
\* the cell run a second time in the same kernel: the parameters are assigned
\* the same values, the generator is seeded again, price_estimate is a new
\* zero vector, and every other name keeps the value the first run left
Rerun ==
    /\ pc = "done" /\ run < 2
    /\ rng_pos' = 0
    /\ prev_estimate' = price_estimate
    /\ price_estimate' = [k \in 0 .. R - 1 |-> RZero]
    /\ repnum' = 0
    /\ pc' = "rep"
    /\ run' = run + 1
    /\ UNCHANGED <<params, i, work, output>>

NextTwice == Next \/ Rerun

SpecTwice == Init /\ [][NextTwice]_vars

\* ------------------------------------- parameters outside the valid ranges
InitAny ==
    /\ r \in {0, 1}
    /\ sigma \in {-1, 0, 1}
    /\ K = RInt(2)
    /\ nt \in 0 .. 2
    /\ N \in 1 .. 2
    /\ R \in 1 .. 2
    /\ S0 \in {RInt(0), RInt(1)}
    /\ seed \in 0 .. 8
    /\ InitState

SpecAny == InitAny /\ [][Next]_vars

\* ------------------------------------------------------- reference solver
\* lines 78-141 as one function of the path table: the estimate a repetition
\* stores when it starts from freshly initialised working vectors
FreshState(Sx) ==
    [intrinsic |-> [p \in Paths |-> PutValue(Sx, p, nt)],
     payoff |-> [p \in Paths |-> PutValue(Sx, p, nt)],
     exec_t |-> [p \in Paths |-> nt]]

StepState(Sx, st, t) ==
    The({The({The({[intrinsic |-> intr, exec_t |-> ex,
                    payoff |-> PayoffUpdate(ex, intr, d, t)] :
                     ex \in {ExerciseUpdate(st.exec_t, itm, yh, intr, t)}}) :
                yh \in {FittedValues(s, d, itm)},
                intr \in {IntrinsicRefresh(Sx, st.intrinsic, itm, t)}}) :
           d \in {Discounted(st.payoff)},
           itm \in {ItmPaths(Sx, t)},
           s \in {PricesAt(Sx, t)}})

RECURSIVE Induction(_, _, _)
Induction(Sx, st, t) ==
    IF LoopContinues(t)
    THEN The({Induction(Sx, nx, t - 1) : nx \in {StepState(Sx, st, t)}})
    ELSE st

PriceOf(Sx) ==
    The({The({Mean(d, N) : d \in {Discounted(fin.payoff)}}) :
           fin \in {The({Induction(Sx, st, nt - 1) : st \in {FreshState(Sx)}})}})

\* ------------------------------------------------------------- properties
\* the working vectors hold one value per path
Solved == pc = "loop" \/ (pc = "rep" /\ repnum > 0) \/ pc = "done"

\* a backward step has been taken in this repetition
Stepped == pc = "loop" /\ it < nt - 1

\* the time index payoff is valued at: nt after initialisation, t after step t
ValTime == it + 1

\* exp(-r*dt) ** k
RECURSIVE DiscountPow(_)
DiscountPow(k) == IF k <= 0 THEN ROne ELSE RMul[Discount(r), DiscountPow(k - 1)]

\* C1, as stated: in every state of the induction payoff[path] is the
\* intrinsic value at exec_t[path], undiscounted, whatever r is.
C1_Undiscounted ==
    Solved => \A p \in Paths : payoff[p] = PutValue(S, p, exec_t[p])

\* C1, amended: payoff[path] is the undiscounted intrinsic value at
\* exec_t[path] for every path whose exercise time is the time the induction
\* is at, and for every path when r = 0.
C1_UndiscountedAtExercise ==
    Solved => \A p \in Paths :
        (r = 0 \/ exec_t[p] = ValTime) => payoff[p] = PutValue(S, p, exec_t[p])

C1_Witness ==
    /\ Stepped /\ r = 1
    /\ \E p \in Paths : exec_t[p] = ValTime /\ payoff[p] # RZero
    /\ \E q \in Paths : exec_t[q] > ValTime /\ payoff[q] # RZero

\* C2: in every state of the induction every exec_t[path] is in 1 .. nt.
C2_ExerciseTimeInRange ==
    Solved => \A p \in Paths : exec_t[p] \in 1 .. nt

C2_Witness ==
    /\ Solved /\ nt >= 3
    /\ \E p \in Paths : exec_t[p] = 1
    /\ \E q \in Paths : exec_t[q] = nt

\* C3: a backward step with loop index t leaves exec_t[path] unchanged or sets
\* it to t, and t is smaller than the value it replaces.
C3_ExerciseTimeMovesEarlier ==
    [][(pc = "loop" /\ pc' = "loop") =>
         \A p \in Paths :
            \/ exec_t'[p] = exec_t[p]
            \/ exec_t'[p] = it /\ it < exec_t[p]]_vars

C3_Witness ==
    /\ Stepped
    /\ \E p \in Paths : exec_t[p] = t_now
    /\ \E q \in itm_paths : t_now < exec_t[q] /\ exec_t[q] < nt

\* C4: at step t a path with S[path, t] >= K is not in the ITM set, keeps its
\* exec_t and gets payoff = dcf; an ITM path gets exec_t = t exactly when
\* y_hat < intrinsic, and keeps its exec_t otherwise.
C4_StrictComparisons ==
    [][(pc = "loop" /\ pc' = "loop") =>
         \A p \in Paths :
            IF RLess[S[p][it], K]
            THEN /\ p \in itm_paths'
                 /\ exec_t'[p] = it <=> RLess[y_hat'[p], PutValue(S, p, it)]
                 /\ exec_t'[p] # it => exec_t'[p] = exec_t[p]
            ELSE /\ p \notin itm_paths'
                 /\ exec_t'[p] = exec_t[p]
                 /\ payoff'[p] = RMul[Discount(r), payoff[p]]]_vars

C4_Witness ==
    /\ Stepped
    /\ \E p \in Paths : S[p][t_now] = K /\ payoff[p] # RZero
    /\ \E q \in itm_paths : y_hat[q] = intrinsic[q] /\ exec_t[q] # t_now

\* C5: a step at which no path is in the money completes: the loop moves on,
\* no exec_t changes and every payoff becomes its discounted value.
C5_EmptyItmStep ==
    [][(pc = "loop" /\ LoopContinues(it) /\ ItmPaths(S, it) = {}) =>
         /\ pc' = "loop" /\ it' = it - 1
         /\ exec_t' = exec_t
         /\ payoff' = Discounted(payoff)]_vars

\* a repetition whose last step had no path in the money stored an estimate
C5_Witness ==
    /\ pc = "rep" /\ repnum > 0 /\ nt >= 2
    /\ itm_paths = {}
    /\ price_estimate[repnum - 1] # RZero

\* C6: with invalid parameters nothing is simulated: the run stays before the
\* first repetition and no draw is taken.
C6_FailFast ==
    ~ValidParams => (pc = "rep" /\ repnum = 0 /\ rng_pos = 0)

\* C7: every repetition starts its induction from exec_t = nt, payoff =
\* intrinsic = max(K - S[:, nt], 0) of its own batch and an all-zero
\* coefficient table; the estimate it stores is the reference solver's value
\* on that batch, and the other repetitions' estimates are left as they were.
C7_NoCarryOver ==
    [][/\ (pc = "sim" /\ pc' = "loop") =>
            /\ S' = S
            /\ \A p \in Paths :
                  /\ exec_t'[p] = nt
                  /\ payoff'[p] = PutValue(S, p, nt)
                  /\ intrinsic'[p] = PutValue(S, p, nt)
            /\ \A t \in 0 .. nt - 1 : betas'[t] = FALSE
       /\ (pc = "loop" /\ pc' = "rep") =>
            /\ price_estimate'[repnum] = PriceOf(S)
            /\ \A k \in 0 .. R - 1 :
                  k # repnum => price_estimate'[k] = price_estimate[k]]_vars

C7_Witness ==
    /\ pc = "rep" /\ repnum = 2
    /\ price_estimate[0] # RZero /\ price_estimate[1] # RZero
    /\ price_estimate[0] # price_estimate[1]
    /\ \E t \in 0 .. nt - 1 : betas[t]

\* C8: a second run with the same seed and parameters ends with the same
\* estimates; the draws taken are counted from the one seeding, and draw
\* (repnum*nt + j - 1)*N + p of the stream moves path p from column j-1 to j.
C8_Deterministic ==
    /\ (pc = "done" /\ run = 2) => price_estimate = prev_estimate
    /\ pc = "sim" => rng_pos = (repnum * nt + i - 1) * N
    /\ pc \in {"rep", "done"} => rng_pos = repnum * nt * N
    /\ pc = "loop" =>
          /\ rng_pos = (repnum + 1) * nt * N
          /\ \A p \in Paths : \A j \in 1 .. nt :
                S[p][j] = RMul[S[p][j - 1],
                               GBMFactor(r, sigma,
                                         Stream(seed, (repnum * nt + j - 1) * N + p))]

C8_Witness ==
    /\ pc = "done" /\ run = 2 /\ R >= 2
    /\ price_estimate = prev_estimate
    /\ price_estimate[0] # price_estimate[1]

C10_DiscountedPayoff ==
    /\ Solved => \A p \in Paths :
          payoff[p] = RMul[DiscountPow(exec_t[p] - ValTime), PutValue(S, p, exec_t[p])]
    /\ ((pc = "rep" /\ repnum > 0) \/ pc = "done") =>
          price_estimate[repnum - 1] =
             The({Mean(v, N) :
                    v \in {[p \in Paths |-> RMul[DiscountPow(exec_t[p]),
                                                 PutValue(S, p, exec_t[p])]]}})

C10_Witness ==
    /\ Stepped /\ r = 1
    /\ \E p \in Paths : exec_t[p] > t_now /\ payoff[p] # RZero
    /\ \E q \in Paths : q \notin itm_paths /\ intrinsic[q] # payoff[q]
                        /\ intrinsic[q] # PutValue(S, q, nt)
====
